---- MODULE Spec2Model ----
(***************************************************************************)
(* Model of scipy/linalg/_matfuncs_sqrtm.py: the blocked Schur matrix      *)
(* square root (_sqrtm_triu) and its driver (sqrtm).                       *)
(*                                                                         *)
(* Numbers are exact rationals <<num, den>> in lowest terms with den > 0.  *)
(* <<0, 0>> stands for every non-finite value (inf, nan) that numpy        *)
(* produces, without raising, from a division by zero; it absorbs under    *)
(* every operation.  A non-negative real sqrt(q), such as a Frobenius      *)
(* norm, is represented by its square q.                                   *)
(***************************************************************************)
EXTENDS Integers, Sequences, FiniteSets, TLC

(* ------------------------------ bounds -------------------------------- *)
\* largest N of the general upper-triangular inputs (specification Spec)
MaxN == 2
\* largest N of the diagonal inputs (specification SpecDiag)
MaxDiagN == 7

\* diagonal entries of the inputs: perfect squares, 0 makes T singular
DiagVals == {0, 1, 4}
\* positive diagonal entries of the diagonal inputs
PosDiagVals == {1, 4}
\* strictly-upper entries of the general inputs
OffVals == {0, 1}

(* --------------------------- exact arithmetic ------------------------- *)
Abs(x) == IF x < 0 THEN -x ELSE x

RECURSIVE Gcd(_, _)
Gcd(a, b) == IF b = 0 THEN a ELSE Gcd(b, a % b)

NonFinite == <<0, 0>>

IsFinite(q) == q[2] # 0

Frac(n, d) ==
  IF d = 0 THEN NonFinite
  ELSE LET g == Gcd(Abs(n), Abs(d))
           s == IF d < 0 THEN -1 ELSE 1
       IN  <<(s * n) \div g, (s * d) \div g>>

Rat(n) == <<n, 1>>

Zero == Rat(0)

\* the sum over the least common denominator
Add(p, q) ==
  IF IsFinite(p) /\ IsFinite(q)
  THEN LET g == Gcd(p[2], q[2])
       IN  Frac(p[1] * (q[2] \div g) + q[1] * (p[2] \div g), (p[2] \div g) * q[2])
  ELSE NonFinite

Neg(p) == IF IsFinite(p) THEN <<-p[1], p[2]>> ELSE NonFinite

Sub(p, q) == Add(p, Neg(q))

\* the product, reduced crosswise before it is formed
Mul(p, q) ==
  IF IsFinite(p) /\ IsFinite(q)
  THEN LET g1 == Gcd(Abs(p[1]), q[2])
           g2 == Gcd(Abs(q[1]), p[2])
       IN  Frac((p[1] \div g1) * (q[1] \div g2), (p[2] \div g2) * (q[2] \div g1))
  ELSE NonFinite

\* numpy division: a zero divisor gives a non-finite value and no exception
Div(p, q) ==
  IF IsFinite(p) /\ IsFinite(q)
  THEN IF q[1] = 0 THEN NonFinite
       ELSE Mul(p, IF q[1] < 0 THEN <<-q[2], -q[1]>> ELSE <<q[2], q[1]>>)
  ELSE NonFinite

ISqrt(k) == CHOOSE r \in 0..k : r * r = k

\* np.sqrt on a non-negative rational whose numerator and denominator are
\* perfect squares (the only diagonal entries the inputs contain)
Sqrt(q) == IF IsFinite(q) THEN <<ISqrt(q[1]), ISqrt(q[2])>> ELSE NonFinite

RECURSIVE SumSeq(_)
SumSeq(s) == IF s = <<>> THEN Zero ELSE Add(Head(s), SumSeq(Tail(s)))

(* ------------------------------ matrices ------------------------------ *)
\* a dense matrix: nr rows, nc columns, entries e[<<i, j>>], zero based
Cells(nr, nc) == (0..(nr - 1)) \X (0..(nc - 1))

Mat(nr, nc, f(_, _)) ==
  [nr |-> nr, nc |-> nc, e |-> [c \in Cells(nr, nc) |-> f(c[1], c[2])]]

At(M, i, j) == M.e[<<i, j>>]

\* np.zeros((n, n))
Zeros(n) == Mat(n, n, LAMBDA i, j : Zero)

\* M[r0:r1, c0:c1]
Slice(M, r0, r1, c0, c1) ==
  Mat(r1 - r0, c1 - c0, LAMBDA p, q : At(M, r0 + p, c0 + q))

\* a.dot(b) for two matrices
Dot(a, b) ==
  Mat(a.nr, b.nc,
      LAMBDA p, q : SumSeq([k \in 1..a.nc |-> Mul(At(a, p, k - 1), At(b, k - 1, q))]))

MatSub(a, b) == Mat(a.nr, a.nc, LAMBDA p, q : Sub(At(a, p, q), At(b, p, q)))

\* x * scale
MatScale(x, scale) == Mat(x.nr, x.nc, LAMBDA p, q : Mul(At(x, p, q), scale))

\* R[r0:r1, c0:c1] = B
Assign(M, r0, r1, c0, c1, B) ==
  [M EXCEPT !.e = [c \in Cells(M.nr, M.nc) |->
     IF r0 <= c[1] /\ c[1] < r1 /\ c0 <= c[2] /\ c[2] < c1
     THEN At(B, c[1] - r0, c[2] - c0) ELSE M.e[c]]]

\* the cells of the index rectangle [r0, r1) x [c0, c1)
Rect(r0, r1, c0, c1) == (r0..(r1 - 1)) \X (c0..(c1 - 1))

\* the square of norm(M, 'fro'): the sum of the squared entries, row by row
FroSq(M) ==
  SumSeq([k \in 1..(M.nr * M.nc) |->
            LET v == At(M, (k - 1) \div M.nc, (k - 1) % M.nc) IN Mul(v, v)])

(* ------------------------- external collaborators --------------------- *)
\* the scale factors the Sylvester solver may choose (0 < scale <= 1)
Scales == {Rat(1), Frac(1, 2)}

\* ztrsyl(Rii, Rjj, S) is called without isgn, so with the wrapper's default
\* isgn = +1: the equation solved is a*x + x*b = scale*c.  (With isgn = -1,
\* a*x - x*b = scale*c, every solve for a multiple of the identity would be
\* singular.)
isgn == Rat(1)

\* one entry of the solution of a*x + isgn*x*b = scale*c, a and b upper
\* triangular, given the entries below it and to its left
SylEntry(x, a, b, c, scale, p, q) ==
  LET below == SumSeq([r \in 1..(a.nr - 1 - p) |->
                         Mul(At(a, p, p + r), At(x, p + r, q))])
      left  == SumSeq([r \in 1..q |-> Mul(At(x, p, r - 1), At(b, r - 1, q))])
      rhs   == Sub(Sub(Mul(scale, At(c, p, q)), below), Mul(isgn, left))
      den   == Add(At(a, p, p), Mul(isgn, At(b, q, q)))
  IN  IF den = Zero THEN NonFinite ELSE Div(rhs, den)

\* back substitution: columns left to right, rows bottom to top
RECURSIVE SylSolve(_, _, _, _, _, _)
SylSolve(x, a, b, c, scale, t) ==
  IF t >= c.nr * c.nc THEN x
  ELSE LET q == t \div c.nr
           p == c.nr - 1 - (t % c.nr)
       IN  SylSolve([x EXCEPT !.e[<<p, q>>] = SylEntry(x, a, b, c, scale, p, q)],
                    a, b, c, scale, t + 1)

\* x, scale, info = ztrsyl(a, b, c): x solves a*x + isgn*x*b = scale*c;
\* info = 1 when a and -isgn*b share an eigenvalue
ztrsyl(a, b, c, scale) ==
  LET x == SylSolve(Mat(c.nr, c.nc, LAMBDA p, q : Zero), a, b, c, scale, 0)
      degenerate == \E p \in 0..(a.nr - 1), q \in 0..(b.nr - 1) :
                      Add(At(a, p, p), Mul(isgn, At(b, q, q))) = Zero
  IN  <<x, scale, IF degenerate THEN 1 ELSE 0>>

\* T, Z = schur(A); T, Z = rsf2csf(T, Z) for an upper triangular A with real
\* eigenvalues: T = A and Z = I
schur(a) == a

(* ------------------------------ _sqrtm_triu --------------------------- *)
\* R[np.diag_indices(n)] = np.sqrt(np.diag(T))
SeedDiag(Tm) ==
  Mat(Tm.nr, Tm.nr,
      LAMBDA i, j : IF i = j THEN Sqrt(At(Tm, i, i)) ELSE At(Zeros(Tm.nr), i, j))

\* a slip: the number of blocks rounded up, max(-(-n // blocksize), 1)
NBlocksCeil(n, bs) ==
  IF (n + bs - 1) \div bs > 1 THEN (n + bs - 1) \div bs ELSE 1

\* nblocks = max(n // blocksize, 1)
NBlocks(n, bs) == IF n \div bs > 1 THEN n \div bs ELSE 1

\* for i in range(count): start_stop_pairs.append((start, start + size)); start += size
RECURSIVE AppendRanges(_, _, _, _)
AppendRanges(pairs, start, count, size) ==
  IF count <= 0 THEN <<pairs, start>>
  ELSE AppendRanges(Append(pairs, <<start, start + size>>), start + size,
                    count - 1, size)

\* a slip: the loop taken over ((nlarge, blarge), (nsmall, bsmall))
StartStopPairsLargeFirst(n, nb) ==
  LET bsmall == n \div nb
      nlarge == n % nb
      blarge == bsmall + 1
      nsmall == nb - nlarge
      large  == AppendRanges(<<>>, 0, nlarge, blarge)
      small  == AppendRanges(large[1], large[2], nsmall, bsmall)
  IN  small[1]

\* the list built by: for count, size in ((nsmall, bsmall), (nlarge, blarge))
StartStopPairs(n, nb) ==
  LET bsmall == n \div nb
      nlarge == n % nb
      blarge == bsmall + 1
      nsmall == nb - nlarge
      small  == AppendRanges(<<>>, 0, nsmall, bsmall)
      large  == AppendRanges(small[1], small[2], nlarge, blarge)
  IN  large[1]

\* the internal consistency test of the partition arithmetic
Inconsistent(n, nb) ==
  LET bsmall == n \div nb
      nlarge == n % nb
      blarge == bsmall + 1
      nsmall == nb - nlarge
  IN  nsmall * bsmall + nlarge * blarge # n

\* a slip: for i in range(lo, j), i ascending
RowsAsc(lo, j) == [t \in 1..(j - lo) |-> <<lo + t - 1, j>>]

\* a slip: for i in range(j, lo-1, -1), the diagonal included
RowsFromJ(lo, j) == [t \in 1..(j - lo + 1) |-> <<j - t + 1, j>>]

\* for i in range(j-1, lo-1, -1): the pairs (i, j), i descending
RowsDesc(lo, j) == [t \in 1..(j - lo) |-> <<j - t, j>>]

\* for j in range(lo, hi): for i in range(j-1, lo-1, -1)
RECURSIVE ColsAsc(_, _, _)
ColsAsc(lo, j, hi) ==
  IF j >= hi THEN <<>> ELSE RowsDesc(lo, j) \o ColsAsc(lo, j + 1, hi)

\* the order in which the within-block loops visit the entries (i, j)
RECURSIVE WithinFrom(_, _)
WithinFrom(pairs, b) ==
  IF b > Len(pairs) THEN <<>>
  ELSE ColsAsc(pairs[b][1], pairs[b][1], pairs[b][2]) \o WithinFrom(pairs, b + 1)

WithinOrder(pairs) == WithinFrom(pairs, 1)

\* the order in which the between-block loops visit the block pairs (i, j)
BetweenOrder(nb) == ColsAsc(0, 0, nb)

\* s = R[i, i+1:j].dot(R[i+1:j, j]) when j - i > 1, else 0
WithinSum(Rm, i, j) ==
  IF j - i > 1
  THEN SumSeq([k \in 1..(j - i - 1) |-> Mul(At(Rm, i, i + k), At(Rm, i + k, j))])
  ELSE Zero

\* a slip: (T[i,j] - s)/(R[i,i] - R[j,j])
WithinValueMinus(Tm, Rm, i, j) ==
  Div(Sub(At(Tm, i, j), WithinSum(Rm, i, j)), Sub(At(Rm, i, i), At(Rm, j, j)))

\* (T[i,j] - s)/(R[i,i] + R[j,j])
WithinValue(Tm, Rm, i, j) ==
  Div(Sub(At(Tm, i, j), WithinSum(Rm, i, j)), Add(At(Rm, i, i), At(Rm, j, j)))

\* the entries of R that the computation of R[i,j] reads
WithinReads(i, j) ==
  {<<i, i>>, <<j, j>>} \cup
  (IF j - i > 1
   THEN Rect(i, i + 1, i + 1, j) \cup Rect(i + 1, j, j, j + 1) ELSE {})

\* the entries of R read by R[istart:istop, istop:jstart].dot(R[istop:jstart, jstart:jstop])
CorrReads(pairs, i, j) ==
  LET istart == pairs[i + 1][1]
      istop  == pairs[i + 1][2]
      jstart == pairs[j + 1][1]
      jstop  == pairs[j + 1][2]
  IN  IF j - i > 1
      THEN Rect(istart, istop, istop, jstart) \cup Rect(istop, jstart, jstart, jstop)
      ELSE {}

\* the entries of R read by Rii and Rjj
DiagBlockReads(pairs, i, j) ==
  Rect(pairs[i + 1][1], pairs[i + 1][2], pairs[i + 1][1], pairs[i + 1][2]) \cup
  Rect(pairs[j + 1][1], pairs[j + 1][2], pairs[j + 1][1], pairs[j + 1][2])

\* S = T[istart:istop, jstart:jstop], less the coupling through the blocks between
BetweenRhs(Tm, Rm, pairs, i, j) ==
  LET istart == pairs[i + 1][1]
      istop  == pairs[i + 1][2]
      jstart == pairs[j + 1][1]
      jstop  == pairs[j + 1][2]
      S      == Slice(Tm, istart, istop, jstart, jstop)
  IN  IF j - i > 1
      THEN MatSub(S, Dot(Slice(Rm, istart, istop, istop, jstart),
                         Slice(Rm, istop, jstart, jstart, jstop)))
      ELSE S

\* what is stored into R[istart:istop, jstart:jstop] from the solver's (x, scale, info)
BlockResult(res) == MatScale(res[1], res[2])

(* -------------------------------- sqrtm ------------------------------- *)
\* the square of arg2 = norm(X*X - A, 'fro')**2 / norm(A, 'fro')
ErrEstSq(Xm, Am) ==
  LET e == FroSq(MatSub(Dot(Xm, Xm), Am))
  IN  Div(Mul(e, e), FroSq(Am))

(* -------------------------------- state ------------------------------- *)
VARIABLES
  shape,             \* A.shape
  A,                 \* the input array
  disp,              \* the disp argument
  blocksize,         \* the blocksize argument
  pc,                \* the position in sqrtm / _sqrtm_triu
  T,                 \* the triangular factor
  R,                 \* the accumulator of _sqrtm_triu
  nblocks,
  start_stop_pairs,
  idx,               \* the position in the current loop's visiting order (from 1)
  out,               \* how the call of sqrtm ended
  printed,           \* whether the singularity advisory was printed
  calls,             \* the callees invoked so far
  ncalls,            \* the number of invocations of ztrsyl
  wcount,            \* per entry of R, the number of assignments after the zero fill
  last,              \* the last step of _sqrtm_triu and the entries of R it read
  readSoFar          \* the entries of R read by any step so far

vars == <<shape, A, disp, blocksize, pc, T, R, nblocks, start_stop_pairs, idx,
          out, printed, calls, ncalls, wcount, last, readSoFar>>

NoMat == [nr |-> 0, nc |-> 0, e |-> <<>>]

NoStep == [op |-> "none", i |-> 0, j |-> 0, reads |-> {}, corr |-> {}]

UpperOff(n) == {c \in Cells(n, n) : c[1] < c[2]}

\* the upper triangular n x n arrays with diagonal in dv and strict upper part in ov
UpperInputs(n, dv, ov) ==
  {Mat(n, n, LAMBDA i, j : IF i = j THEN Rat(d[i])
                           ELSE IF i < j THEN Rat(u[<<i, j>>]) ELSE Zero) :
     d \in [0..(n - 1) -> dv], u \in [UpperOff(n) -> ov]}

\* the diagonal n x n arrays whose diagonal alternates between two values of
\* dv: the multiples a*I of the identity (a = b) and diag(a, b, a, b, ...)
DiagInputs(n, dv) ==
  {Mat(n, n, LAMBDA i, j : IF i = j THEN Rat(IF i % 2 = 0 THEN a ELSE b) ELSE Zero) :
     a \in dv, b \in dv}

\* arrays that are not square matrices: 1-D, or 2-D with unequal sides
BadShapes == {<<1>>, <<2>>, <<1, 2>>, <<2, 1>>}

BadInput(sh) == IF Len(sh) = 1 THEN Mat(1, sh[1], LAMBDA i, j : Zero)
                ELSE Mat(sh[1], sh[2], LAMBDA i, j : Zero)

InitRest ==
  /\ disp \in BOOLEAN
  /\ pc = "sqrtm"
  /\ T = NoMat
  /\ R = NoMat
  /\ nblocks = 0
  /\ start_stop_pairs = <<>>
  /\ idx = 0
  /\ out = [kind |-> "running"]
  /\ printed = FALSE
  /\ calls = {}
  /\ ncalls = 0
  /\ wcount = <<>>
  /\ last = NoStep
  /\ readSoFar = {}

\* general upper triangular inputs, possibly singular
Init ==
  /\ \/ \E n \in 1..MaxN :
          /\ shape = <<n, n>>
          /\ A \in UpperInputs(n, DiagVals, OffVals)
          /\ blocksize \in 0..(n + 1)
     \/ /\ shape \in BadShapes
        /\ A = BadInput(shape)
        /\ blocksize \in 0..1
  /\ InitRest

\* diagonal inputs with positive diagonal
InitDiag ==
  /\ \/ \E n \in 1..MaxDiagN :
          /\ shape = <<n, n>>
          /\ A \in DiagInputs(n, PosDiagVals)
          /\ blocksize \in 0..(n + 1)
     \/ /\ shape \in BadShapes
        /\ A = BadInput(shape)
        /\ blocksize \in 0..1
  /\ InitRest

Raise(exc, by) == [kind |-> "raised", exc |-> exc, by |-> by]

(* -------------------------------- sqrtm ------------------------------- *)
\* lines 135-139: the argument checks
Validate ==
  /\ pc = "sqrtm"
  /\ IF Len(shape) # 2
     THEN /\ out' = Raise("ValueError", "sqrtm")
          /\ pc' = "done"
     ELSE IF blocksize < 1
     THEN /\ out' = Raise("ValueError", "sqrtm")
          /\ pc' = "done"
     ELSE /\ out' = out
          /\ pc' = "schur"
  /\ UNCHANGED <<shape, A, disp, blocksize, T, R, nblocks, start_stop_pairs, idx,
                 printed, calls, ncalls, wcount, last, readSoFar>>

\* lines 140-141: the Schur factorization, which rejects a non-square array
Schur ==
  /\ pc = "schur"
  /\ calls' = calls \cup {"schur"}
  /\ IF shape[1] # shape[2]
     THEN /\ out' = Raise("ValueError", "schur")
          /\ pc' = "done"
          /\ T' = T
     ELSE /\ out' = out
          /\ pc' = "triu"
          /\ T' = schur(A)
  /\ UNCHANGED <<shape, A, disp, blocksize, R, nblocks, start_stop_pairs, idx,
                 printed, ncalls, wcount, last, readSoFar>>

(* ------------------------------ _sqrtm_triu --------------------------- *)
\* lines 47-51: the zero fill and the square roots of the diagonal
Seed ==
  /\ pc = "triu"
  /\ calls' = calls \cup {"_sqrtm_triu"}
  /\ R' = SeedDiag(T)
  /\ wcount' = [c \in Cells(T.nr, T.nr) |-> IF c[1] = c[2] THEN 1 ELSE 0]
  /\ last' = [NoStep EXCEPT !.op = "seed"]
  /\ pc' = "partition"
  /\ UNCHANGED <<shape, A, disp, blocksize, T, nblocks, start_stop_pairs, idx,
                 out, printed, ncalls, readSoFar>>

\* lines 53-70: the number of blocks, the consistency test and the ranges
Partition ==
  /\ pc = "partition"
  /\ LET n  == T.nr
         nb == NBlocks(n, blocksize)
     IN  /\ nblocks' = nb
         /\ IF Inconsistent(n, nb)
            THEN /\ out' = Raise("Exception", "_sqrtm_triu")
                 /\ pc' = "done"
                 /\ start_stop_pairs' = start_stop_pairs
                 /\ idx' = idx
            ELSE /\ out' = out
                 /\ pc' = "within"
                 /\ start_stop_pairs' = StartStopPairs(n, nb)
                 /\ idx' = 1
  /\ last' = [NoStep EXCEPT !.op = "partition"]
  /\ UNCHANGED <<shape, A, disp, blocksize, T, R, printed, calls, ncalls, wcount,
                 readSoFar>>

\* lines 73-79: one pass of the innermost within-block loop
Within ==
  /\ pc = "within"
  /\ idx <= Len(WithinOrder(start_stop_pairs))
  /\ LET ij == WithinOrder(start_stop_pairs)[idx]
         i  == ij[1]
         j  == ij[2]
     IN  /\ R' = [R EXCEPT !.e[<<i, j>>] = WithinValue(T, R, i, j)]
         /\ wcount' = [wcount EXCEPT ![<<i, j>>] = @ + 1]
         /\ last' = [op |-> "within", i |-> i, j |-> j,
                     reads |-> WithinReads(i, j), corr |-> {}]
         /\ readSoFar' = readSoFar \cup WithinReads(i, j)
  /\ idx' = idx + 1
  /\ UNCHANGED <<shape, A, disp, blocksize, pc, T, nblocks, start_stop_pairs,
                 out, printed, calls, ncalls>>

\* the within-block loops are exhausted: line 82 is reached
WithinExit ==
  /\ pc = "within"
  /\ idx > Len(WithinOrder(start_stop_pairs))
  /\ pc' = "between"
  /\ idx' = 1
  /\ last' = [NoStep EXCEPT !.op = "within_exit"]
  /\ UNCHANGED <<shape, A, disp, blocksize, T, R, nblocks, start_stop_pairs,
                 out, printed, calls, ncalls, wcount, readSoFar>>

\* lines 83-97: one pass of the inner between-block loop
Between ==
  /\ pc = "between"
  /\ idx <= Len(BetweenOrder(nblocks))
  /\ LET ij     == BetweenOrder(nblocks)[idx]
         i      == ij[1]
         j      == ij[2]
         istart == start_stop_pairs[i + 1][1]
         istop  == start_stop_pairs[i + 1][2]
         jstart == start_stop_pairs[j + 1][1]
         jstop  == start_stop_pairs[j + 1][2]
         S      == BetweenRhs(T, R, start_stop_pairs, i, j)
         Rii    == Slice(R, istart, istop, istart, istop)
         Rjj    == Slice(R, jstart, jstop, jstart, jstop)
         reads  == CorrReads(start_stop_pairs, i, j) \cup
                   DiagBlockReads(start_stop_pairs, i, j)
     IN  /\ \E scale \in Scales :
              R' = Assign(R, istart, istop, jstart, jstop,
                          BlockResult(ztrsyl(Rii, Rjj, S, scale)))
         /\ wcount' = [c \in DOMAIN wcount |->
                         IF c \in Rect(istart, istop, jstart, jstop)
                         THEN wcount[c] + 1 ELSE wcount[c]]
         /\ last' = [op |-> "between", i |-> i, j |-> j, reads |-> reads,
                     corr |-> CorrReads(start_stop_pairs, i, j)]
         /\ readSoFar' = readSoFar \cup reads
  /\ ncalls' = ncalls + 1
  /\ idx' = idx + 1
  /\ UNCHANGED <<shape, A, disp, blocksize, pc, T, nblocks, start_stop_pairs,
                 out, printed, calls>>

\* line 100 and lines 143-144: R is returned and X = Z * R * Z.H with Z = I
TriuReturn ==
  /\ pc = "between"
  /\ idx > Len(BetweenOrder(nblocks))
  /\ pc' = "disp"
  /\ last' = [NoStep EXCEPT !.op = "return"]
  /\ UNCHANGED <<shape, A, disp, blocksize, T, R, nblocks, start_stop_pairs, idx,
                 out, printed, calls, ncalls, wcount, readSoFar>>

(* ---------------------------- sqrtm, the end -------------------------- *)
\* lines 146-150: the name diag is not defined in the module (only np, norm,
\* ztrsyl, all_mat, schur and rsf2csf are bound), so line 147 raises NameError
Display ==
  /\ pc = "disp"
  /\ disp
  /\ out' = Raise("NameError", "sqrtm")
  /\ pc' = "done"
  /\ UNCHANGED <<shape, A, disp, blocksize, T, R, nblocks, start_stop_pairs, idx,
                 printed, calls, ncalls, wcount, last, readSoFar>>

\* lines 151-153: the error estimate is returned with X
ErrEst ==
  /\ pc = "disp"
  /\ ~disp
  /\ out' = [kind |-> "returned", X |-> R, pair |-> TRUE, arg2sq |-> ErrEstSq(R, A)]
  /\ pc' = "done"
  /\ UNCHANGED <<shape, A, disp, blocksize, T, R, nblocks, start_stop_pairs, idx,
                 printed, calls, ncalls, wcount, last, readSoFar>>

Next ==
  \/ Validate
  \/ Schur
  \/ Seed
  \/ Partition
  \/ Within
  \/ WithinExit
  \/ Between
  \/ TriuReturn
  \/ Display
  \/ ErrEst

Spec == Init /\ [][Next]_vars

SpecDiag == InitDiag /\ [][Next]_vars

(* ------------------------- notions used by the claims ----------------- *)
\* the order of T once the factorization is done
N == T.nr

\* _sqrtm_triu has been entered and has built its list of ranges
Partitioned ==
  /\ "_sqrtm_triu" \in calls
  /\ pc # "partition"
  /\ ~(out.kind = "raised" /\ out.exc = "Exception")

\* the size of the k-th range (k from 1)
SizeOf(k) == start_stop_pairs[k][2] - start_stop_pairs[k][1]

\* the index range of block b (b from 0)
BlockIdx(b) == start_stop_pairs[b + 1][1]..(start_stop_pairs[b + 1][2] - 1)

\* the entries of the block pair (bi, bj)
BlockPair(bi, bj) == BlockIdx(bi) \X BlockIdx(bj)

\* the call is valid: a square 2-D array and blocksize >= 1
ValidCall == Len(shape) = 2 /\ shape[1] = shape[2] /\ blocksize >= 1

\* no denominator R[i,i] + R[j,j], i < j, is zero
NoZeroDenominator ==
  \A i, j \in 0..(N - 1) : i < j => Add(At(R, i, i), At(R, j, j)) # Zero

\* the result of the scalar recurrence alone: one block, blocksize >= N
RECURSIVE WithinRun(_, _, _, _)
WithinRun(Tm, Rm, order, k) ==
  IF k > Len(order) THEN Rm
  ELSE WithinRun(Tm,
                 [Rm EXCEPT !.e[order[k]] = WithinValue(Tm, Rm, order[k][1], order[k][2])],
                 order, k + 1)

SingleBlockResult(Tm) ==
  WithinRun(Tm, SeedDiag(Tm), WithinOrder(<<<<0, Tm.nr>>>>), 1)

(* -------------------------------- claims ------------------------------ *)
\* C1: when _sqrtm_triu has finished and no denominator R[i,i]+R[j,j] is zero,
\* R is upper triangular and R.R = T, whatever (x, scale, info) the Sylvester
\* solver returned, scale # 1 included.  The code stores x * scale, which is
\* scale^2 times the solution, so this fails for scale # 1.
C1_SquareIsT ==
  (pc = "disp" /\ NoZeroDenominator) =>
     /\ \A c \in DOMAIN R.e : c[1] > c[2] => R.e[c] = Zero
     /\ Dot(R, R) = T

\* C2: the ranges are nblocks = max(N div blocksize, 1) many, contiguous, cover
\* [0, N), have sizes floor(N/nblocks) or floor(N/nblocks)+1, exactly
\* N mod nblocks of the larger size, the larger after the smaller; the
\* 'internal inconsistency' exception is never raised.
C2_Partition ==
  /\ out.kind = "raised" => out.exc # "Exception"
  /\ Partitioned =>
       /\ Len(start_stop_pairs) = nblocks
       /\ nblocks >= 1
       /\ IF N \div blocksize >= 1
          THEN nblocks * blocksize <= N /\ N < (nblocks + 1) * blocksize
          ELSE nblocks = 1
       /\ start_stop_pairs[1][1] = 0
       /\ start_stop_pairs[nblocks][2] = N
       /\ \A k \in 1..(nblocks - 1) :
            start_stop_pairs[k + 1][1] = start_stop_pairs[k][2]
       /\ \A k \in 1..nblocks :
            /\ start_stop_pairs[k][1] < start_stop_pairs[k][2]
            /\ SizeOf(k) \in {N \div nblocks, (N \div nblocks) + 1}
       /\ Cardinality({k \in 1..nblocks : SizeOf(k) = (N \div nblocks) + 1})
            = N % nblocks
       /\ \A k, l \in 1..nblocks : k < l => SizeOf(k) <= SizeOf(l)

C2_Witness ==
  /\ pc = "within"
  /\ nblocks >= 2
  /\ SizeOf(1) < SizeOf(nblocks)
  /\ N % nblocks >= 1

\* C3: a call with a non-2-D array, a non-square 2-D array or blocksize < 1 is
\* rejected by sqrtm itself with ValueError before schur or _sqrtm_triu is
\* invoked.  The code never compares the two sides of the shape, so a
\* non-square array reaches schur.
C3_RejectsBeforeSchur ==
  (Len(shape) # 2 \/ shape[1] # shape[2] \/ blocksize < 1) =>
     /\ calls = {}
     /\ pc = "done" => out = Raise("ValueError", "sqrtm")

\* C4: a valid call never raises; with disp it prints the advisory exactly
\* when some diagonal entry of T is zero and returns X alone, without disp it
\* prints nothing and returns the pair (X, residual).  The code raises
\* NameError whenever disp is true.
C4_ValidCallCompletes ==
  ValidCall =>
     /\ out.kind # "raised"
     /\ pc = "done" =>
          IF disp
          THEN /\ out.kind = "returned" /\ ~out.pair
               /\ printed <=> (\E i \in 0..(N - 1) : At(T, i, i) = Zero)
          ELSE /\ out.kind = "returned" /\ out.pair
               /\ ~printed

\* C5: without disp the second value returned is norm(X.X - A)/norm(A), the
\* norm of the residual to the first power; compared through the squares.
\* The code returns norm(X.X - A)**2 / norm(A).
C5_RelativeResidual ==
  (pc = "done" /\ out.kind = "returned" /\ ~disp) =>
     out.arg2sq = Div(FroSq(MatSub(Dot(out.X, out.X), A)), FroSq(A))

\* C6: the result does not depend on blocksize: with no zero denominator, R
\* equals what the single-block run (blocksize >= N) computes.  Fails through
\* the x * scale of C1 when the solver returns scale # 1.
C6_BlocksizeInvariant ==
  (pc = "disp" /\ NoZeroDenominator) => R = SingleBlockResult(T)

\* C7: for a diagonal T with positive diagonal and blocksize in 1..N, every
\* off-diagonal entry of R is zero at every stage and in the result, and the
\* diagonal of the result holds the non-negative square roots.
C7_DiagonalInput ==
  (/\ pc \in {"partition", "within", "between", "disp"}
   /\ blocksize \in 1..N
   /\ \A c \in DOMAIN T.e : IF c[1] = c[2] THEN T.e[c][1] > 0 ELSE T.e[c] = Zero)
  => \A c \in DOMAIN R.e :
       IF c[1] = c[2]
       THEN IsFinite(R.e[c]) /\ R.e[c][1] > 0 /\ Mul(R.e[c], R.e[c]) = T.e[c]
       ELSE R.e[c] = Zero

C7_Witness ==
  /\ pc = "disp"
  /\ blocksize \in 1..N
  /\ nblocks >= 2
  /\ SizeOf(1) >= 2
  /\ ncalls >= 1
  /\ At(T, 0, 0) # At(T, 1, 1)
  /\ At(R, 0, 0) = Rat(2)

\* C8: R stays upper triangular: no entry below the diagonal is ever assigned
\* after the zero fill; every entry on or above the diagonal is assigned at
\* most once at every stage and exactly once by the end.
C8_WriteOnce ==
  pc \in {"partition", "within", "between", "disp"} =>
     /\ \A c \in DOMAIN wcount :
          IF c[1] > c[2] THEN wcount[c] = 0 /\ R.e[c] = Zero ELSE wcount[c] <= 1
     /\ pc = "disp" => \A c \in DOMAIN wcount : c[1] <= c[2] => wcount[c] = 1

C8_Witness ==
  /\ pc = "disp"
  /\ nblocks >= 3
  /\ SizeOf(1) >= 2
  /\ \A c \in DOMAIN wcount : c[1] <= c[2] => wcount[c] = 1

\* C9: every entry of R a step reads was assigned before the step and is never
\* assigned again; a within-block step reads inside the block of (i, j); a
\* between-block step for (i, j) finds the diagonal blocks and all block pairs
\* (i, k), (k, j), i < k < j, completely assigned, and its correction slices
\* cover exactly those block pairs.
C9_ReadsAreFinal ==
  [][ /\ \A c \in last'.reads : c[1] <= c[2] => wcount[c] = 1
      /\ \A c \in readSoFar : wcount'[c] = wcount[c] /\ R'.e[c] = R.e[c]
      /\ last'.op = "within" =>
           \E b \in 0..(nblocks - 1) :
              last'.reads \cup {<<last'.i, last'.j>>} \subseteq BlockPair(b, b)
      /\ last'.op = "between" =>
           /\ last'.corr =
                UNION {BlockPair(last'.i, k) \cup BlockPair(k, last'.j) :
                         k \in (last'.i + 1)..(last'.j - 1)}
           /\ BlockPair(last'.i, last'.i) \cup BlockPair(last'.j, last'.j)
                \subseteq last'.reads
           /\ last'.corr \subseteq last'.reads
    ]_vars

C9_Witness ==
  /\ last.op = "between"
  /\ last.j - last.i > 1
  /\ SizeOf(1) >= 2
  /\ last.corr # {}
  /\ \A c \in last.reads : c[1] <= c[2] => wcount[c] = 1

\* C10: if N >= blocksize every range has at least blocksize and fewer than
\* 2*blocksize entries; if N < blocksize there is one range of size N and
\* ztrsyl is never invoked; the solver is invoked nblocks*(nblocks-1)/2 times
\* in all.
C10_BlockSizeBounds ==
  /\ Partitioned =>
       /\ N >= blocksize =>
            \A k \in 1..Len(start_stop_pairs) :
               blocksize <= SizeOf(k) /\ SizeOf(k) < 2 * blocksize
       /\ N < blocksize =>
            /\ Len(start_stop_pairs) = 1
            /\ SizeOf(1) = N
            /\ ncalls = 0
       /\ 2 * ncalls <= nblocks * (nblocks - 1)
  /\ pc = "disp" => 2 * ncalls = nblocks * (nblocks - 1)

C10_Witness ==
  /\ pc = "disp"
  /\ N >= blocksize
  /\ blocksize >= 2
  /\ nblocks >= 2
  /\ SizeOf(nblocks) > blocksize
  /\ ncalls >= 1

====
